---- MODULE Spec2Model ----
(***************************************************************************)
(* Model of litex_boards/targets/rz_easyfpga.py: the clock/reset generator *)
(* _CRG, the SoC composer BaseSoC and the command-line entry point main.   *)
(*                                                                         *)
(* The program is a one-shot, single-threaded elaboration.  Each action is *)
(* one statement group of the source; pc is the position of the single     *)
(* thread of control.  An exception raised by a collaborator is not caught *)
(* anywhere in the file, so it ends the run (pc = "failed") with whatever  *)
(* had been built so far left unreachable to the caller (soc_returned      *)
(* stays FALSE).                                                           *)
(*                                                                         *)
(* A Python dict is a function whose DOMAIN is the set of keys present.    *)
(***************************************************************************)
EXTENDS Integers, Sequences, FiniteSets, TLC

VARIABLES
    pc,               \* position of the thread of control
    entry,            \* "main": run from the command line; "direct": BaseSoC(...) called by other code
    args,             \* the argparse namespace of main (the argparse defaults under "direct")
    sys_clk_freq,     \* BaseSoC parameter
    sdram_rate,       \* BaseSoC parameter
    with_led_chaser,  \* BaseSoC parameter
    caller_kwargs,    \* the **kwargs the caller passed to BaseSoC
    kwargs,           \* BaseSoC's local kwargs dict
    avail,            \* names of the resources the platform has
    requested,        \* platform.request / request_all calls, in order
    soccore,          \* SoCCore.__init__ calls: the keyword arguments each received
    clock_domains,    \* _CRG.clock_domains: records [name, reset_less]
    clkouts,          \* pll.create_clkout calls, in order: records [cd, freq, phase]
    ddr,              \* DDROutput specials of _CRG: records [pad, clk]
    crg,              \* self.submodules.crg has been assigned
    sdrphys,          \* memory adapters instantiated: records [cls, pads, freq]
    sdrams,           \* add_sdram calls: records [phy, rate, l2_cache_size]
    leds,             \* LedChaser instances: records [pads, freq]
    soc_returned,     \* BaseSoC(...) returned an object to its caller
    built,            \* Builder.build: "no", "generate" (run=False) or "compile" (run=True)
    loaded,           \* the bitstream was loaded
    error             \* "none" or the exception that ended the run

vars == <<pc, entry, args, sys_clk_freq, sdram_rate, with_led_chaser,
          caller_kwargs, kwargs, avail, requested, soccore, clock_domains,
          clkouts, ddr, crg, sdrphys, sdrams, leds, soc_returned, built,
          loaded, error>>

----------------------------------------------------------------------------
(* Bounds of the explored input space *)

\* --sys-clk-freq texts are modelled in half hertz: h stands for the text of h/2
MaxHalfHz == 3

\* sys_clk_freq values of a direct call range over -MaxFreq .. MaxFreq
MaxFreq == 1

(* Program constants *)

ROM_SIZE == 25088

SRAM_SIZE == 4096

DEFAULT_HZ == 50000000

----------------------------------------------------------------------------
(* Input domains *)

ValidRates == {"1:1", "1:2"}

\* "1:4" is a rate string the tool does not document
Rates == ValidRates \cup {"1:4"}

CpuTypes == {"vexriscv", "picorv32"}

CpuVariants == {"standard"}

Resources == {"clk50", "sdram_clock", "sdram", "user_led"}

\* a text that float() parses (num) to halves/2, or one it rejects
FreqTexts ==
    {[num |-> TRUE, halves |-> h] : h \in (-MaxHalfHz .. MaxHalfHz) \cup {2 * DEFAULT_HZ}}
        \cup {[num |-> FALSE, halves |-> 0]}

DirectFreqs == (-MaxFreq .. MaxFreq) \cup {DEFAULT_HZ}

EmptyDict == <<>>

OptField(k, Vals) == {EmptyDict} \cup {k :> v : v \in Vals}

CallerKwargs ==
    {a @@ b @@ c @@ d @@ e :
        a \in OptField("cpu_type", CpuTypes),
        b \in OptField("cpu_variant", CpuVariants),
        c \in OptField("integrated_rom_size", {2 * ROM_SIZE}),
        d \in OptField("integrated_sram_size", {2 * SRAM_SIZE}),
        e \in OptField("integrated_main_ram_size", {0, SRAM_SIZE})}

----------------------------------------------------------------------------
(* Python helpers *)

\* dict.get(k, default)
Get(kw, k, default) == IF k \in DOMAIN kw THEN kw[k] ELSE default

\* kw[k] = v
Set(kw, k, v) == (k :> v) @@ kw

\* int(float(text)) for the text of h/2: truncation toward zero
IntOfFloat(h) == IF h >= 0 THEN h \div 2 ELSE -((-h) \div 2)

----------------------------------------------------------------------------
(* Collaborators *)

\* platform.request(name) and platform.request_all(name) succeed when the
\* board has the resource and raise otherwise
HasResource(name) == name \in avail

\* the clock domains a memory adapter's logic runs in
RequiredDomains(cls) ==
    IF cls = "HalfRateGENSDRPHY" THEN <<"sys", "sys2x">> ELSE <<"sys">>

\* SoCCore keeps integrated_main_ram_size as an attribute, 0 when not given
IntegratedMainRamSize == Get(soccore[1], "integrated_main_ram_size", 0)

\* MT48LC4M16(clk_freq, rate) is only specified for the two documented rates;
\* for any other rate string it may or may not raise
ModuleMayRaise(rate) == IF rate \in ValidRates THEN {FALSE} ELSE BOOLEAN

----------------------------------------------------------------------------
(* _CRG.__init__ *)

CRG_ClockDomains(rate) ==
    {[name |-> "sys", reset_less |-> FALSE]} \cup
    (IF rate = "1:2"
        THEN {[name |-> "sys2x",    reset_less |-> FALSE],
              [name |-> "sys2x_ps", reset_less |-> TRUE]}
        ELSE {[name |-> "sys_ps",   reset_less |-> TRUE]})

\* variant: the 2x outputs requested at the system frequency
CRG_ClkOuts_NotDoubled(rate, f) ==
    <<[cd |-> "sys", freq |-> f, phase |-> 0]>> \o
    (IF rate = "1:2"
        THEN <<[cd |-> "sys2x",    freq |-> f, phase |-> 0],
               [cd |-> "sys2x_ps", freq |-> f, phase |-> 270]>>
        ELSE <<[cd |-> "sys_ps",   freq |-> f, phase |-> 180]>>)

\* create_clkout(cd, freq, phase): phase is 0 where the call gives none
CRG_ClkOuts(rate, f) ==
    <<[cd |-> "sys", freq |-> f, phase |-> 0]>> \o
    (IF rate = "1:2"
        THEN <<[cd |-> "sys2x",    freq |-> 2 * f, phase |-> 0],
               [cd |-> "sys2x_ps", freq |-> 2 * f, phase |-> 270]>>
        ELSE <<[cd |-> "sys_ps",   freq |-> f,     phase |-> 180]>>)

\* variant: the half-rate DDR clock taken from the unshifted 2x domain
CRG_SdramClk_Unshifted(rate) == IF rate = "1:2" THEN "sys2x" ELSE "sys_ps"

CRG_SdramClk(rate) == IF rate = "1:2" THEN "sys2x_ps" ELSE "sys_ps"

----------------------------------------------------------------------------
(* BaseSoC.__init__ *)

\* variant: the fixed sizes used as defaults only
ClampSizes_Default(kw) ==
    kw @@ [integrated_rom_size |-> ROM_SIZE, integrated_sram_size |-> SRAM_SIZE]

ClampSizes(kw) ==
    Set(Set(kw, "integrated_rom_size", ROM_SIZE), "integrated_sram_size", SRAM_SIZE)

\* variant: the minimal variant forced for every CPU type
CpuVariantOverride_Always(kw) == Set(kw, "cpu_variant", "minimal")

CpuVariantOverride(kw) ==
    IF Get(kw, "cpu_type", "vexriscv") = "vexriscv"
        THEN Set(kw, "cpu_variant", "minimal")
        ELSE kw

\* variant: the SDRAM wired whatever the integrated main RAM size
WiresSdram_Always(main_ram_size) == TRUE

\* "if not self.integrated_main_ram_size"
WiresSdram(main_ram_size) == main_ram_size = 0

\* variant: the two adapter classes exchanged
SdrPhyCls_Swapped(rate) == IF rate = "1:2" THEN "GENSDRPHY" ELSE "HalfRateGENSDRPHY"

SdrPhyCls(rate) == IF rate = "1:2" THEN "HalfRateGENSDRPHY" ELSE "GENSDRPHY"

----------------------------------------------------------------------------
(* State machine *)

ArgDefaults ==
    [sys_clk_freq |-> [num |-> TRUE, halves |-> 2 * DEFAULT_HZ],
     sdram_rate   |-> "1:1",
     build        |-> FALSE,
     load         |-> FALSE,
     soc_core     |-> EmptyDict]

MainArgs ==
    [sys_clk_freq : FreqTexts,
     sdram_rate   : Rates,
     build        : BOOLEAN,
     load         : BOOLEAN,
     soc_core     : CallerKwargs]

Blank ==
    /\ requested = <<>>
    /\ soccore = <<>>
    /\ clock_domains = {}
    /\ clkouts = <<>>
    /\ ddr = <<>>
    /\ crg = FALSE
    /\ sdrphys = <<>>
    /\ sdrams = <<>>
    /\ leds = <<>>
    /\ soc_returned = FALSE
    /\ built = "no"
    /\ loaded = FALSE
    /\ error = "none"

InitMain ==
    /\ entry = "main"
    /\ pc = "main"
    /\ args \in MainArgs
    /\ sys_clk_freq = 0
    /\ sdram_rate = ""
    /\ with_led_chaser = TRUE
    /\ caller_kwargs = EmptyDict
    /\ kwargs = EmptyDict

InitDirect ==
    /\ entry = "direct"
    /\ pc = "BaseSoC"
    /\ args = ArgDefaults
    /\ sys_clk_freq \in DirectFreqs
    /\ sdram_rate \in Rates
    /\ with_led_chaser \in BOOLEAN
    /\ caller_kwargs \in CallerKwargs
    /\ kwargs = caller_kwargs

Init ==
    /\ avail \in SUBSET Resources
    /\ Blank
    /\ (InitMain \/ InitDirect)

Raise(e) ==
    /\ pc' = "failed"
    /\ error' = e

\* main: parse_args and the arguments of the BaseSoC(...) call
main_parse ==
    /\ pc = "main"
    /\ IF args.sys_clk_freq.num
         THEN /\ sys_clk_freq' = IntOfFloat(args.sys_clk_freq.halves)
              /\ sdram_rate' = args.sdram_rate
              /\ caller_kwargs' = args.soc_core
              /\ kwargs' = args.soc_core
              /\ pc' = "BaseSoC"
              /\ UNCHANGED error
         ELSE /\ Raise("ValueError")
              /\ UNCHANGED <<sys_clk_freq, sdram_rate, caller_kwargs, kwargs>>
    /\ UNCHANGED <<entry, args, with_led_chaser, avail, requested, soccore,
                   clock_domains, clkouts, ddr, crg, sdrphys, sdrams, leds,
                   soc_returned, built, loaded>>

\* BaseSoC.__init__: the kwargs overrides
BaseSoC_kwargs ==
    /\ pc = "BaseSoC"
    /\ kwargs' = CpuVariantOverride(ClampSizes(kwargs))
    /\ pc' = "SoCCore"
    /\ UNCHANGED <<entry, args, sys_clk_freq, sdram_rate, with_led_chaser,
                   caller_kwargs, avail, requested, soccore, clock_domains,
                   clkouts, ddr, crg, sdrphys, sdrams, leds, soc_returned,
                   built, loaded, error>>

\* SoCCore.__init__(self, platform, sys_clk_freq, ident=..., **kwargs)
SoCCore_init ==
    /\ pc = "SoCCore"
    /\ soccore' = Append(soccore, kwargs)
    /\ pc' = "CRG"
    /\ UNCHANGED <<entry, args, sys_clk_freq, sdram_rate, with_led_chaser,
                   caller_kwargs, kwargs, avail, requested, clock_domains,
                   clkouts, ddr, crg, sdrphys, sdrams, leds, soc_returned,
                   built, loaded, error>>

\* _CRG.__init__: the clock domains
CRG_domains ==
    /\ pc = "CRG"
    /\ clock_domains' = CRG_ClockDomains(sdram_rate)
    /\ pc' = "CRG_clk50"
    /\ UNCHANGED <<entry, args, sys_clk_freq, sdram_rate, with_led_chaser,
                   caller_kwargs, kwargs, avail, requested, soccore, clkouts,
                   ddr, crg, sdrphys, sdrams, leds, soc_returned, built,
                   loaded, error>>

\* _CRG.__init__: clk50 = platform.request("clk50")
CRG_clk50 ==
    /\ pc = "CRG_clk50"
    /\ requested' = Append(requested, "clk50")
    /\ IF HasResource("clk50")
         THEN pc' = "CRG_pll" /\ UNCHANGED error
         ELSE Raise("ResourceUnavailable")
    /\ UNCHANGED <<entry, args, sys_clk_freq, sdram_rate, with_led_chaser,
                   caller_kwargs, kwargs, avail, soccore, clock_domains,
                   clkouts, ddr, crg, sdrphys, sdrams, leds, soc_returned,
                   built, loaded>>

\* _CRG.__init__: the PLL and its outputs.  The PLL may refuse any of the
\* outputs (n of them were accepted before the refusal).
CRG_pll ==
    /\ pc = "CRG_pll"
    /\ LET outs == CRG_ClkOuts(sdram_rate, sys_clk_freq) IN
         \E n \in 0 .. Len(outs) :
           /\ clkouts' = SubSeq(outs, 1, n)
           /\ IF n < Len(outs)
                THEN Raise("CapabilityExceeded")
                ELSE pc' = "CRG_sdram_clock" /\ UNCHANGED error
    /\ UNCHANGED <<entry, args, sys_clk_freq, sdram_rate, with_led_chaser,
                   caller_kwargs, kwargs, avail, requested, soccore,
                   clock_domains, ddr, crg, sdrphys, sdrams, leds,
                   soc_returned, built, loaded>>

\* variant: the SDRAM clock output wired only when the SDRAM itself is
CRG_sdram_clock_OnlyWithSdram ==
    /\ pc = "CRG_sdram_clock"
    /\ IF ~WiresSdram(IntegratedMainRamSize)
         THEN /\ crg' = TRUE
              /\ pc' = "sdram"
              /\ UNCHANGED <<requested, ddr, error>>
         ELSE /\ requested' = Append(requested, "sdram_clock")
              /\ IF HasResource("sdram_clock")
                   THEN /\ ddr' = Append(ddr, [pad |-> "sdram_clock", clk |-> CRG_SdramClk(sdram_rate)])
                        /\ crg' = TRUE
                        /\ pc' = "sdram"
                        /\ UNCHANGED error
                   ELSE /\ Raise("ResourceUnavailable")
                        /\ UNCHANGED <<ddr, crg>>
    /\ UNCHANGED <<entry, args, sys_clk_freq, sdram_rate, with_led_chaser,
                   caller_kwargs, kwargs, avail, soccore, clock_domains,
                   clkouts, sdrphys, sdrams, leds, soc_returned, built,
                   loaded>>

\* _CRG.__init__: the SDRAM clock output, then self.submodules.crg = ...
CRG_sdram_clock ==
    /\ pc = "CRG_sdram_clock"
    /\ requested' = Append(requested, "sdram_clock")
    /\ IF HasResource("sdram_clock")
         THEN /\ ddr' = Append(ddr, [pad |-> "sdram_clock", clk |-> CRG_SdramClk(sdram_rate)])
              /\ crg' = TRUE
              /\ pc' = "sdram"
              /\ UNCHANGED error
         ELSE /\ Raise("ResourceUnavailable")
              /\ UNCHANGED <<ddr, crg>>
    /\ UNCHANGED <<entry, args, sys_clk_freq, sdram_rate, with_led_chaser,
                   caller_kwargs, kwargs, avail, soccore, clock_domains,
                   clkouts, sdrphys, sdrams, leds, soc_returned, built,
                   loaded>>

\* BaseSoC.__init__: the SDR SDRAM section
BaseSoC_sdram ==
    /\ pc = "sdram"
    /\ IF ~WiresSdram(IntegratedMainRamSize)
         THEN /\ pc' = "leds"
              /\ UNCHANGED <<requested, sdrphys, sdrams, error>>
         ELSE /\ requested' = Append(requested, "sdram")
              /\ IF ~HasResource("sdram")
                   THEN /\ Raise("ResourceUnavailable")
                        /\ UNCHANGED <<sdrphys, sdrams>>
                   ELSE /\ sdrphys' = Append(sdrphys,
                                [cls  |-> SdrPhyCls(sdram_rate),
                                 pads |-> "sdram",
                                 freq |-> sys_clk_freq])
                        /\ \E raises \in ModuleMayRaise(sdram_rate) :
                             IF raises
                               THEN /\ Raise("ModuleError")
                                    /\ UNCHANGED sdrams
                               ELSE /\ sdrams' = Append(sdrams,
                                            [phy  |-> SdrPhyCls(sdram_rate),
                                             rate |-> sdram_rate,
                                             l2_cache_size |-> 0])
                                    /\ pc' = "leds"
                                    /\ UNCHANGED error
    /\ UNCHANGED <<entry, args, sys_clk_freq, sdram_rate, with_led_chaser,
                   caller_kwargs, kwargs, avail, soccore, clock_domains,
                   clkouts, ddr, crg, leds, soc_returned, built, loaded>>

\* variant: a board without user LEDs tolerated, the chaser left out
BaseSoC_leds_Tolerant ==
    /\ pc = "leds"
    /\ IF with_led_chaser
         THEN /\ requested' = Append(requested, "user_led")
              /\ leds' = IF HasResource("user_led")
                            THEN Append(leds, [pads |-> "user_led", freq |-> sys_clk_freq])
                            ELSE leds
         ELSE UNCHANGED <<requested, leds>>
    /\ soc_returned' = TRUE
    /\ pc' = IF entry = "main" THEN "build" ELSE "done"
    /\ UNCHANGED <<entry, args, sys_clk_freq, sdram_rate, with_led_chaser,
                   caller_kwargs, kwargs, avail, soccore, clock_domains,
                   clkouts, ddr, crg, sdrphys, sdrams, built, loaded, error>>

\* BaseSoC.__init__: the Leds section, and the return to the caller
BaseSoC_leds ==
    /\ pc = "leds"
    /\ IF with_led_chaser
         THEN /\ requested' = Append(requested, "user_led")
              /\ IF HasResource("user_led")
                   THEN /\ leds' = Append(leds, [pads |-> "user_led", freq |-> sys_clk_freq])
                        /\ soc_returned' = TRUE
                        /\ pc' = IF entry = "main" THEN "build" ELSE "done"
                        /\ UNCHANGED error
                   ELSE /\ Raise("ResourceUnavailable")
                        /\ UNCHANGED <<leds, soc_returned>>
         ELSE /\ soc_returned' = TRUE
              /\ pc' = IF entry = "main" THEN "build" ELSE "done"
              /\ UNCHANGED <<requested, leds, error>>
    /\ UNCHANGED <<entry, args, sys_clk_freq, sdram_rate, with_led_chaser,
                   caller_kwargs, kwargs, avail, soccore, clock_domains,
                   clkouts, ddr, crg, sdrphys, sdrams, built, loaded>>

\* main: builder = Builder(soc, ...); builder.build(run=args.build)
main_build ==
    /\ pc = "build"
    /\ built' = IF args.build THEN "compile" ELSE "generate"
    /\ pc' = IF args.load THEN "load" ELSE "done"
    /\ UNCHANGED <<entry, args, sys_clk_freq, sdram_rate, with_led_chaser,
                   caller_kwargs, kwargs, avail, requested, soccore,
                   clock_domains, clkouts, ddr, crg, sdrphys, sdrams, leds,
                   soc_returned, loaded, error>>

\* main: if args.load: prog.load_bitstream(...)
main_load ==
    /\ pc = "load"
    /\ loaded' = TRUE
    /\ pc' = "done"
    /\ UNCHANGED <<entry, args, sys_clk_freq, sdram_rate, with_led_chaser,
                   caller_kwargs, kwargs, avail, requested, soccore,
                   clock_domains, clkouts, ddr, crg, sdrphys, sdrams, leds,
                   soc_returned, built, error>>

Next ==
    \/ main_parse
    \/ BaseSoC_kwargs
    \/ SoCCore_init
    \/ CRG_domains
    \/ CRG_clk50
    \/ CRG_pll
    \/ CRG_sdram_clock
    \/ BaseSoC_sdram
    \/ BaseSoC_leds
    \/ main_build
    \/ main_load

Spec == Init /\ [][Next]_vars

----------------------------------------------------------------------------
(* Properties *)

Range(seq) == {seq[i] : i \in 1 .. Len(seq)}

DomainNames == {d.name : d \in clock_domains}

\* the name a timing mode gives its phase-shifted domain
PsNameOf(rate) == IF rate = "1:2" THEN "sys2x_ps" ELSE "sys_ps"

\* each clock domain with the frequency and phase the PLL was asked for
ResolvedDomains ==
    {[name |-> d.name, freq |-> o.freq, phase |-> o.phase, reset_less |-> d.reset_less] :
        <<d, o>> \in {x \in clock_domains \X Range(clkouts) : x[1].name = x[2].cd}}

\* integrated_main_ram_size as the caller gave it (0 when absent)
CallerMainRam == Get(caller_kwargs, "integrated_main_ram_size", 0)

\* C1: for both timing modes, once _CRG is built its domain set holds a
\* reset-less domain named after the mode (sys_ps for "1:1", sys2x_ps for
\* "1:2") and the one DDR output is clocked by exactly that domain, never by
\* a resettable one (sys, sys2x).
C1_DdrClockResetLess ==
    (crg /\ sdram_rate \in ValidRates) =>
        /\ [name |-> PsNameOf(sdram_rate), reset_less |-> TRUE] \in clock_domains
        /\ Len(ddr) = 1
        /\ ddr[1].clk = (IF sdram_rate = "1:1" THEN "sys_ps" ELSE "sys2x_ps")
        /\ ddr[1].clk \notin {"sys", "sys2x"}
        /\ \A d \in clock_domains : d.name = ddr[1].clk => d.reset_less

C1_Witness ==
    /\ crg
    /\ sdram_rate = "1:2"
    /\ Len(ddr) = 1
    /\ ddr[1].clk = "sys2x_ps"

\* C2: for both timing modes, the adapter BaseSoC instantiates and the domain
\* set _CRG created follow the same mode: "1:1" gives GENSDRPHY needing
\* <<sys>>, "1:2" gives HalfRateGENSDRPHY needing <<sys, sys2x>>, and every
\* needed domain is in the domain set.
C2_AdapterMatchesDomains ==
    sdram_rate \in ValidRates =>
        \A i \in 1 .. Len(sdrphys) :
            /\ sdram_rate = "1:1" =>
                 /\ sdrphys[i].cls = "GENSDRPHY"
                 /\ RequiredDomains(sdrphys[i].cls) = <<"sys">>
                 /\ DomainNames = {"sys", "sys_ps"}
            /\ sdram_rate = "1:2" =>
                 /\ sdrphys[i].cls = "HalfRateGENSDRPHY"
                 /\ RequiredDomains(sdrphys[i].cls) = <<"sys", "sys2x">>
                 /\ DomainNames = {"sys", "sys2x", "sys2x_ps"}
            /\ Range(RequiredDomains(sdrphys[i].cls)) \subseteq DomainNames

C2_Witness ==
    /\ sdram_rate = "1:2"
    /\ Len(sdrphys) = 1
    /\ sdrphys[1].cls = "HalfRateGENSDRPHY"
    /\ "sys2x" \in DomainNames

\* C3: a --sdram-rate string other than "1:1" and "1:2" is rejected before
\* any clock domain is created: no domain, PLL output or memory adapter ever
\* exists for it and no SoC is returned.
C3_InvalidRateRejected ==
    (entry = "main" /\ args.sdram_rate \notin {"1:1", "1:2"}) =>
        /\ clock_domains = {}
        /\ clkouts = <<>>
        /\ sdrphys = <<>>
        /\ ~soc_returned

\* C4: whatever integrated_rom_size and integrated_sram_size the caller gave
\* (or left out), SoCCore receives 0x6200 and 0x1000.
C4_SizesClamped ==
    \A i \in 1 .. Len(soccore) :
        /\ "integrated_rom_size" \in DOMAIN soccore[i]
        /\ "integrated_sram_size" \in DOMAIN soccore[i]
        /\ soccore[i]["integrated_rom_size"] = 25088
        /\ soccore[i]["integrated_sram_size"] = 4096

C4_Witness ==
    /\ Len(soccore) = 1
    /\ "integrated_rom_size" \in DOMAIN caller_kwargs
    /\ caller_kwargs["integrated_rom_size"] # 25088
    /\ "integrated_sram_size" \notin DOMAIN caller_kwargs
    /\ soccore[1]["integrated_rom_size"] = 25088
    /\ soccore[1]["integrated_sram_size"] = 4096

\* C5: when cpu_type is absent or "vexriscv", SoCCore receives cpu_variant
\* "minimal" whatever the caller gave; for any other cpu_type, cpu_type and
\* cpu_variant reach SoCCore as the caller gave them (absent stays absent).
C5_CpuVariantOverride ==
    \A i \in 1 .. Len(soccore) :
        IF "cpu_type" \notin DOMAIN caller_kwargs \/ caller_kwargs["cpu_type"] = "vexriscv"
          THEN /\ "cpu_variant" \in DOMAIN soccore[i]
               /\ soccore[i]["cpu_variant"] = "minimal"
          ELSE /\ "cpu_type" \in DOMAIN soccore[i]
               /\ soccore[i]["cpu_type"] = caller_kwargs["cpu_type"]
               /\ ("cpu_variant" \in DOMAIN soccore[i]) = ("cpu_variant" \in DOMAIN caller_kwargs)
               /\ "cpu_variant" \in DOMAIN caller_kwargs =>
                    soccore[i]["cpu_variant"] = caller_kwargs["cpu_variant"]

C5_Witness ==
    /\ Len(soccore) = 1
    /\ "cpu_type" \in DOMAIN caller_kwargs
    /\ caller_kwargs["cpu_type"] = "picorv32"
    /\ "cpu_variant" \in DOMAIN caller_kwargs
    /\ soccore[1]["cpu_variant"] = "standard"

\* C6: with a non-zero integrated_main_ram_size no adapter is instantiated,
\* "sdram" is never requested and add_sdram is never called, in either
\* timing mode; with a zero one, a BaseSoC that was built holds exactly one
\* adapter, wired by one add_sdram call with l2_cache_size = 0.
C6_IntegratedRamSkipsSdram ==
    Len(soccore) = 1 =>
        /\ CallerMainRam # 0 =>
             /\ sdrphys = <<>>
             /\ sdrams = <<>>
             /\ "sdram" \notin Range(requested)
        /\ (CallerMainRam = 0 /\ soc_returned) =>
             /\ Len(sdrphys) = 1
             /\ Len(sdrams) = 1
             /\ sdrams[1].phy = sdrphys[1].cls
             /\ sdrams[1].l2_cache_size = 0
             /\ "sdram" \in Range(requested)

C6_Witness ==
    /\ soc_returned
    /\ CallerMainRam # 0
    /\ sdram_rate = "1:2"
    /\ sdrphys = <<>>

\* C7: clock resolution fails when the system clock frequency is <= 0 (_CRG
\* is never built for it), and a run that failed holds no built _CRG and
\* returned no SoC.
C7_NonPositiveFreqRejected ==
    /\ (pc # "main" /\ error # "ValueError" /\ sys_clk_freq <= 0) => (~crg /\ ~soc_returned)
    /\ pc = "failed" => ~soc_returned

\* C8: when a requested resource is missing on the platform the run ends at
\* that request with ResourceUnavailable: it is the last request made,
\* nothing a later step would have added exists, and no SoC is returned,
\* built or loaded.
LaterStepsNotRun(r) ==
    /\ r = "clk50" => clkouts = <<>>
    /\ r \in {"clk50", "sdram_clock"} => (ddr = <<>> /\ ~crg)
    /\ r \in {"clk50", "sdram_clock", "sdram"} => (sdrphys = <<>> /\ sdrams = <<>>)
    /\ leds = <<>>

C8_MissingResourceFatal ==
    LET missing == {i \in 1 .. Len(requested) : requested[i] \notin avail} IN
    missing # {} =>
        /\ missing = {Len(requested)}
        /\ pc = "failed"
        /\ error = "ResourceUnavailable"
        /\ LaterStepsNotRun(requested[Len(requested)])
        /\ ~soc_returned
        /\ built = "no"
        /\ ~loaded

C8_Witness ==
    /\ pc = "failed"
    /\ requested = <<"clk50", "sdram_clock", "sdram", "user_led">>
    /\ "user_led" \notin avail
    /\ Len(sdrphys) = 1

\* C9: for a positive system clock frequency f, a built _CRG holds exactly
\* {sys at f, resettable; sys_ps at f, phase 180, reset-less} under "1:1"
\* and {sys at f, resettable; sys2x at 2f, phase 0, resettable; sys2x_ps at
\* 2f, phase 270, reset-less} under "1:2": no other domain, one PLL output
\* per domain, one domain named sys, every *_ps domain reset-less.
C9_ExactDomainSet ==
    (crg /\ sys_clk_freq > 0 /\ sdram_rate \in ValidRates) =>
        LET f == sys_clk_freq IN
        /\ Cardinality(clock_domains) = Cardinality(DomainNames)
        /\ Len(clkouts) = Cardinality(clock_domains)
        /\ {[name |-> r.name, freq |-> r.freq, reset_less |-> r.reset_less] :
                r \in {x \in ResolvedDomains : x.name = "sys"}}
             = {[name |-> "sys", freq |-> f, reset_less |-> FALSE]}
        /\ {x \in ResolvedDomains : x.name # "sys"}
             = (IF sdram_rate = "1:1"
                  THEN {[name |-> "sys_ps", freq |-> f, phase |-> 180, reset_less |-> TRUE]}
                  ELSE {[name |-> "sys2x", freq |-> 2 * f, phase |-> 0, reset_less |-> FALSE],
                        [name |-> "sys2x_ps", freq |-> 2 * f, phase |-> 270, reset_less |-> TRUE]})
        /\ DomainNames = {r.name : r \in ResolvedDomains}
        /\ \A d \in clock_domains : d.name \in {"sys_ps", "sys2x_ps"} => d.reset_less

C9_Witness ==
    /\ crg
    /\ sdram_rate = "1:2"
    /\ sys_clk_freq = 50000000
    /\ [name |-> "sys2x_ps", freq |-> 100000000, phase |-> 270, reset_less |-> TRUE]
         \in ResolvedDomains

\* C10: every BaseSoC that was built requested "sdram_clock" and drives one
\* DDR output on it from the phase-shifted domain, whatever the integrated
\* main RAM size and with_led_chaser; and no BaseSoC is built on a platform
\* without sdram_clock.
C10_SdramClockAlways ==
    /\ crg =>
         /\ "sdram_clock" \in Range(requested)
         /\ Len(ddr) = 1
         /\ ddr[1].pad = "sdram_clock"
         /\ ddr[1].clk = PsNameOf(sdram_rate)
    /\ "sdram_clock" \notin avail => (~crg /\ ~soc_returned)
    /\ (pc \in {"sdram", "leds", "build", "load", "done"}) => crg

C10_Witness ==
    /\ soc_returned
    /\ CallerMainRam # 0
    /\ ~with_led_chaser
    /\ sdrphys = <<>>
    /\ Len(ddr) = 1
    /\ ddr[1].pad = "sdram_clock"

====
